---- MODULE Spec2Model ----
(***************************************************************************)
(* Model of the HTTP VCR proxy of http_vcr.go: a session is constructed by *)
(* NewHttpVcr in RECORD or REPLAY mode, InitializeServer routes /vcr/stop  *)
(* to the stop handler and every other path to HttpVcr.handler, and the    *)
(* net/http server runs one handler invocation per request, in parallel.   *)
(*                                                                         *)
(* VcrRecorder and VcrReplayer are used by http_vcr.go but defined in      *)
(* other files of the package; they are modelled from section 4.2, 4.4 and *)
(* 5 of the specification (atomic append-and-flush under a mutex, Close,   *)
(* Resolve under a mutex with one-shot consumption).                       *)
(***************************************************************************)
EXTENDS Naturals, Sequences, FiniteSets, TLC

(* ------------------------------ bounds --------------------------------- *)

\* handler invocations the server runs in parallel
NumHandlers == 2
\* requests (of any path) the server accepts in one session
MaxRequests == 3
\* interactions in a cassette file found at session start
MaxCassette == 2

(* ------------------------- program constants --------------------------- *)

\* handleErrorInHandler: w.WriteHeader(500)
InternalServerError == 500

(* ----------------------------- data model ------------------------------ *)

Handlers == 1..NumHandlers

\* (method, RequestURI) of an inbound request to the catch-all path "/"
Requests == {"GET /ping", "POST /v1/charges"}

JsonBody == "{\"ok\":true}"
HtmlBody == "<html></html>"
EmptyBody == ""

OkJson ==
    [StatusCode |-> 200, ContentType |-> "application/json", ContentLength |-> "11",
     Body |-> JsonBody]
NotFoundHtml ==
    [StatusCode |-> 404, ContentType |-> "text/html; charset=utf-8", ContentLength |-> "13",
     Body |-> HtmlBody]
OkEmpty ==
    [StatusCode |-> 200, ContentType |-> "application/json", ContentLength |-> "0",
     Body |-> EmptyBody]

\* responses the origin gives in a RECORD session
Responses == {OkJson, NotFoundHtml}

\* interactions of the cassette files found at session start
Interactions ==
    { [request |-> "GET /ping", response |-> OkJson],
      [request |-> "POST /v1/charges", response |-> NotFoundHtml],
      [request |-> "GET /ping", response |-> OkEmpty] }

RECURSIVE SeqsUpTo(_, _)
SeqsUpTo(S, n) ==
    IF n = 0 THEN {<<>>}
    ELSE LET shorter == SeqsUpTo(S, n - 1)
         IN  shorter \cup {Append(s, e) : s \in {t \in shorter : Len(t) = n - 1}, e \in S}

\* cassette files that can lie at the session's path before it starts
Cassettes == SeqsUpTo(Interactions, MaxCassette)

NoResponse == [StatusCode |-> 0, ContentType |-> "", ContentLength |-> "", Body |-> ""]
NoRequest == ""
\* what Resolve has selected: an index of the cassette, or 0 with the failure
NoSelection == [idx |-> 0, err |-> ""]

(* ------------------------------- state --------------------------------- *)

VARIABLES
    phase,        \* "new": before NewHttpVcr; "serving"; "failed": NewHttpVcr returned an error
    recordMode,   \* HttpVcr.recordMode (the argument of NewHttpVcr)
    fileExists,   \* whether a file lies at filepath
    removable,    \* whether os.Remove(filepath) can succeed
    hadFile,      \* whether a file lay at filepath when the session started
    startErr,     \* the error NewHttpVcr returned, "" for nil
    file,         \* the interactions the cassette file decodes to
    recorder,     \* HttpVcr.recorder: "nil", "open" or "closed"
    recLock,      \* the handler inside the Recorder's append-and-flush step, or 0
    replayer,     \* HttpVcr.replayer: "nil" or "live"
    cassette,     \* the Replayer's in-memory copy of the cassette
    comparator,   \* the comparator the Replayer was created with
    consumed,     \* the Replayer's consumption marks: indices of cassette
    repLock,      \* the handler inside the Replayer's match resolution, or 0
    listening,    \* whether the http.Server is accepting requests
    pc,           \* each handler invocation's position
    req,          \* each handler's inbound request
    resp,         \* each handler's resp (fetched or recorded)
    err,          \* each handler's error, "" for nil
    w,            \* each handler's http.ResponseWriter
    sel,          \* each handler's selection inside Resolve
    appendRes,    \* each handler's recorder.Write outcome: "none", "ok" or an error
    served,       \* requests accepted so far
    resolveLog,   \* results of the Resolve calls, in call order
    appendLog,    \* interactions of the successful Append calls, in completion order
    proxied,      \* status and body the callers of those requests received, same order
    fileAtStop,   \* the cassette file as it was when /vcr/stop closed the Recorder
    stops,        \* /vcr/stop requests handled
    nilClose      \* /vcr/stop requests that called Close on a nil Recorder

vars == <<phase, recordMode, fileExists, removable, hadFile, startErr, file, recorder, recLock, replayer,
          cassette, comparator, consumed, repLock, listening, pc, req, resp, err, w, sel, appendRes,
          served, resolveLog, appendLog, proxied, fileAtStop, stops, nilClose>>

sessionVars == <<phase, recordMode, removable, hadFile, startErr, listening>>
handlerVars == <<pc, req, resp, err, w, sel, appendRes>>
recorderVars == <<fileExists, file, recorder, recLock, appendLog, proxied, fileAtStop>>
replayerVars == <<replayer, cassette, comparator, consumed, repLock, resolveLog>>
stopVars == <<stops, nilClose>>

(* ------------------------ http.ResponseWriter -------------------------- *)

HeaderKeys == {"Content-Type", "Content-Length"}

\* an empty header map: Header.Get of an absent key is ""
NoHeader == [k \in HeaderKeys |-> ""]

\* the ResponseWriter the server hands to a handler: nothing committed, empty
\* header map, nothing written
NewResponseWriter ==
    [wroteHeader |-> FALSE, status |-> 0, handlerHeader |-> NoHeader,
     sentHeader |-> NoHeader, body |-> ""]

\* w.WriteHeader(code): commits the status line together with a snapshot of the
\* header map as it is now; a second call is superfluous and changes nothing
WriteHeader(rw, code) ==
    IF rw.wroteHeader THEN rw
    ELSE [rw EXCEPT !.wroteHeader = TRUE, !.status = code, !.sentHeader = rw.handlerHeader]

\* w.Header().Set(key, value): changes the handler's header map, which is sent
\* only through the snapshot WriteHeader takes
HeaderSet(rw, key, value) == [rw EXCEPT !.handlerHeader[key] = value]

\* http.DetectContentType on the bodies of the model: JSON text is sniffed as
\* plain text, a document starting with <html as HTML
DetectContentType(p) ==
    IF p = HtmlBody THEN "text/html; charset=utf-8" ELSE "text/plain; charset=utf-8"

\* w.Write(p): commits status 200 if no status is committed yet, sniffs the
\* Content-Type from the first bytes when the committed header has none
Write(rw, p) ==
    LET r1 == WriteHeader(rw, 200)
        r2 == IF r1.body = "" /\ p # "" /\ r1.sentHeader["Content-Type"] = ""
              THEN [r1 EXCEPT !.sentHeader["Content-Type"] = DetectContentType(p)]
              ELSE r1
    IN  [r2 EXCEPT !.body = r2.body \o p]

\* io.Copy(w, bytes.NewBuffer(b)): Buffer.WriteTo calls w.Write only for a
\* non-empty buffer
IoCopy(rw, b) == IF b = "" THEN rw ELSE Write(rw, b)

\* what the caller receives once the handler has returned: the server commits
\* status 200 itself when the handler committed none
Delivered(rw) ==
    LET r == WriteHeader(rw, 200)
    IN  [status |-> r.status, contentType |-> r.sentHeader["Content-Type"], body |-> r.body]

\* handleErrorInHandler without its WriteHeader(500)
handleErrorInHandlerSilent(rw, e) == rw

\* handleErrorInHandler(w, err)
handleErrorInHandler(rw, e) ==
    IF e = "" THEN rw ELSE WriteHeader(rw, InternalServerError)

(* ----------------------------- Comparator ------------------------------ *)

\* a comparator that accepts on equal method and URI and scans on
methodUriComparator(req1, req2) == <<req1 = req2, FALSE>>

\* the comparator NewHttpVcr hands to NewReplayer: <<accept, shortCircuitNow>>
sequentialComparator(req1, req2) == <<TRUE, TRUE>>

\* a comparator as the Replayer holds it: its result for every pair of a
\* stored and an incoming request
Comparators == [Requests \X Requests -> BOOLEAN \X BOOLEAN]
SequentialCmp == [p \in Requests \X Requests |-> sequentialComparator(p[1], p[2])]
\* no Replayer, no comparator
NoComparator == <<>>

(* ------------------------------ session -------------------------------- *)

Init ==
    /\ phase = "new"
    /\ recordMode \in BOOLEAN
    /\ fileExists \in BOOLEAN
    /\ removable \in (IF fileExists THEN BOOLEAN ELSE {TRUE})
    /\ hadFile = fileExists
    /\ startErr = ""
    /\ file \in (IF fileExists THEN Cassettes ELSE {<<>>})
    /\ recorder = "nil"
    /\ recLock = 0
    /\ replayer = "nil"
    /\ cassette = <<>>
    /\ comparator = NoComparator
    /\ consumed = {}
    /\ repLock = 0
    /\ listening = FALSE
    /\ pc = [h \in Handlers |-> "idle"]
    /\ req = [h \in Handlers |-> NoRequest]
    /\ resp = [h \in Handlers |-> NoResponse]
    /\ err = [h \in Handlers |-> ""]
    /\ w = [h \in Handlers |-> NewResponseWriter]
    /\ sel = [h \in Handlers |-> NoSelection]
    /\ appendRes = [h \in Handlers |-> "none"]
    /\ served = 0
    /\ resolveLog = <<>>
    /\ appendLog = <<>>
    /\ proxied = <<>>
    /\ fileAtStop = <<>>
    /\ stops = 0
    /\ nilClose = 0

\* NewHttpVcr returned the error e before creating anything: main's check(err)
\* ends the process
ConstructionFails(e) ==
    /\ phase' = "failed"
    /\ startErr' = e
    /\ UNCHANGED <<recorder, replayer, cassette, comparator>>

\* NewHttpVcr's RECORD branch without the removal of an existing file: the
\* Recorder opens the file as it is
NewHttpVcrRecordKeepsFile ==
    \E created \in BOOLEAN :
        /\ fileExists' = (fileExists \/ created)
        /\ file' = file
        /\ recorder' = (IF created THEN "open" ELSE "nil")
        /\ phase' = (IF created THEN "constructed" ELSE "failed")
        /\ startErr' = (IF created THEN "" ELSE "IOError")
        /\ UNCHANGED <<replayer, cassette, comparator>>

\* NewHttpVcr, RECORD branch: remove the file if there is one, then NewRecorder,
\* which creates an empty cassette file or fails with an IOError
NewHttpVcrRecord ==
    IF fileExists /\ ~removable
    THEN ConstructionFails("IOError") /\ UNCHANGED <<fileExists, file>>
    ELSE \E created \in BOOLEAN :
           /\ fileExists' = created
           /\ file' = <<>>
           /\ recorder' = (IF created THEN "open" ELSE "nil")
           /\ phase' = (IF created THEN "constructed" ELSE "failed")
           /\ startErr' = (IF created THEN "" ELSE "IOError")
           /\ UNCHANGED <<replayer, cassette, comparator>>

\* NewHttpVcr's REPLAY branch without the os.Stat check: NewReplayer is called
\* whether or not the file is there
NewHttpVcrReplayNoStat ==
    \E loaded \in BOOLEAN :
        /\ replayer' = (IF loaded THEN "live" ELSE "nil")
        /\ cassette' = (IF loaded THEN file ELSE <<>>)
        /\ comparator' = (IF loaded THEN SequentialCmp ELSE NoComparator)
        /\ phase' = (IF loaded THEN "constructed" ELSE "failed")
        /\ startErr' = (IF loaded THEN "" ELSE "MalformedCassette")
        /\ UNCHANGED <<fileExists, file, recorder>>

\* NewHttpVcr, REPLAY branch: fail if there is no file, else NewReplayer with
\* the sequential comparator, which loads the whole cassette or fails
NewHttpVcrReplay ==
    IF ~fileExists
    THEN ConstructionFails("FileNotFound") /\ UNCHANGED <<fileExists, file>>
    ELSE \E loaded \in BOOLEAN :
           /\ replayer' = (IF loaded THEN "live" ELSE "nil")
           /\ cassette' = (IF loaded THEN file ELSE <<>>)
           /\ comparator' = (IF loaded THEN SequentialCmp ELSE NoComparator)
           /\ phase' = (IF loaded THEN "constructed" ELSE "failed")
           /\ startErr' = (IF loaded THEN "" ELSE "MalformedCassette")
           /\ UNCHANGED <<fileExists, file, recorder>>

\* NewHttpVcr without its vcr.recordMode = recordMode: the field keeps its zero
\* value
NewHttpVcrModeLost ==
    /\ phase = "new"
    /\ IF recordMode THEN NewHttpVcrRecord ELSE NewHttpVcrReplay
    /\ recordMode' = FALSE
    /\ UNCHANGED <<removable, hadFile, listening, recLock, consumed, repLock,
                   appendLog, proxied, fileAtStop, resolveLog, served>>
    /\ UNCHANGED <<handlerVars, stopVars>>

NewHttpVcr ==
    /\ phase = "new"
    /\ IF recordMode THEN NewHttpVcrRecord ELSE NewHttpVcrReplay
    /\ UNCHANGED <<recordMode, removable, hadFile, listening, recLock, consumed, repLock,
                   appendLog, proxied, fileAtStop, resolveLog, served>>
    /\ UNCHANGED <<handlerVars, stopVars>>

\* main: InitializeServer registers the two handlers, ListenAndServeTLS serves
InitializeServer ==
    /\ phase = "constructed"
    /\ phase' = "serving"
    /\ listening' = TRUE
    /\ UNCHANGED <<recordMode, removable, hadFile, startErr, served>>
    /\ UNCHANGED <<handlerVars, recorderVars, replayerVars, stopVars>>

(* ------------------------------ Replayer ------------------------------- *)

Unconsumed == {i \in 1..Len(cassette) : i \notin consumed}

\* Resolve's scan of the unconsumed interactions from index i on, in recorded
\* order: the first accepted one is selected, a short circuit ends the scan
RECURSIVE Scan(_, _)
Scan(request, i) ==
    IF i > Len(cassette) THEN [idx |-> 0, err |-> "NoMatch"]
    ELSE IF i \in consumed THEN Scan(request, i + 1)
    ELSE LET c == comparator[<<cassette[i].request, request>>]
         IN  IF c[1] THEN [idx |-> i, err |-> ""]
             ELSE IF c[2] THEN [idx |-> 0, err |-> "NoMatch"]
             ELSE Scan(request, i + 1)

\* a Replayer that ignores its comparator and hands out the next unconsumed
\* interaction
ResolveFirstUnconsumed(request) ==
    IF Unconsumed = {} THEN [idx |-> 0, err |-> "Exhausted"]
    ELSE [idx |-> CHOOSE i \in Unconsumed : \A j \in Unconsumed : i <= j, err |-> ""]

\* Replayer.Resolve(request): the selection, before it is marked consumed
Resolve(request) ==
    IF Unconsumed = {} THEN [idx |-> 0, err |-> "Exhausted"] ELSE Scan(request, 1)

\* a Replayer that resolves without mutual exclusion
ReplayerUnlocked == TRUE

\* the Replayer's mutual exclusion: one match resolution at a time
ReplayerLockFree == repLock = 0

\* Replayer.Resolve marking its selection consumed
MarkConsumed(s) == IF s.idx = 0 THEN consumed ELSE consumed \cup {s.idx}

\* a Recorder that writes each record at the start of the file
RecorderWriteRewriting(interaction) ==
    IF recorder # "open"
    THEN {[res |-> "RecorderClosed", file |-> file]}
    ELSE {[res |-> "ok", file |-> <<interaction>>],
          [res |-> "IOError", file |-> file]}

\* Recorder.Append(interaction): the outcome and the cassette file after it. A
\* closed Recorder refuses; an open one writes and flushes the record, or
\* fails with an IOError
RecorderWrite(interaction) ==
    IF recorder # "open"
    THEN {[res |-> "RecorderClosed", file |-> file]}
    ELSE {[res |-> "ok", file |-> Append(file, interaction)],
          [res |-> "IOError", file |-> file]}

\* Recorder.Close(): the Recorder accepts no further Append
RecorderClose == "closed"

\* a Recorder that appends without mutual exclusion
RecorderUnlocked == TRUE

\* the Recorder's mutual exclusion around the append-and-flush step and Close
RecorderLockFree == recLock = 0

(* ------------------------------ handler -------------------------------- *)

\* a handler invocation that is not running (never started, or returned)
Free(h) == pc[h] \in {"idle", "done"}

\* a handler that fetches from the origin whatever the mode is
ReceiveAlwaysFetch(h) ==
    /\ phase = "serving" /\ listening
    /\ Free(h) /\ \A g \in 1..(h - 1) : ~Free(g)
    /\ served < MaxRequests
    /\ \E r \in Requests : req' = [req EXCEPT ![h] = r]
    /\ served' = served + 1
    /\ w' = [w EXCEPT ![h] = NewResponseWriter]
    /\ resp' = [resp EXCEPT ![h] = NoResponse]
    /\ err' = [err EXCEPT ![h] = ""]
    /\ sel' = [sel EXCEPT ![h] = NoSelection]
    /\ appendRes' = [appendRes EXCEPT ![h] = "none"]
    /\ pc' = [pc EXCEPT ![h] = "fetch"]
    /\ UNCHANGED sessionVars
    /\ UNCHANGED <<recorderVars, replayerVars, stopVars>>

\* the server accepts a request for the catch-all path and starts
\* HttpVcr.handler on it with a fresh ResponseWriter; invocations are
\* interchangeable, so the request goes to the first free one
Receive(h) ==
    /\ phase = "serving" /\ listening
    /\ Free(h) /\ \A g \in 1..(h - 1) : ~Free(g)
    /\ served < MaxRequests
    /\ \E r \in Requests : req' = [req EXCEPT ![h] = r]
    /\ served' = served + 1
    /\ w' = [w EXCEPT ![h] = NewResponseWriter]
    /\ resp' = [resp EXCEPT ![h] = NoResponse]
    /\ err' = [err EXCEPT ![h] = ""]
    /\ sel' = [sel EXCEPT ![h] = NoSelection]
    /\ appendRes' = [appendRes EXCEPT ![h] = "none"]
    /\ pc' = [pc EXCEPT ![h] = IF recordMode THEN "fetch" ELSE "resolve"]
    /\ UNCHANGED sessionVars
    /\ UNCHANGED <<recorderVars, replayerVars, stopVars>>

\* getResponseFromRemote: what client.Do can return, as (resp, err)
getResponseFromRemote ==
    [resp : Responses, err : {""}] \cup {[resp |-> NoResponse, err |-> "UpstreamUnavailable"]}

\* handler, RECORD branch of the fetch: an error is handled and the handler
\* returns, else the response goes on to be written back
HandlerFetch(h) ==
    /\ pc[h] = "fetch"
    /\ \E got \in getResponseFromRemote :
         IF got.err # ""
         THEN /\ err' = [err EXCEPT ![h] = got.err]
              /\ w' = [w EXCEPT ![h] = handleErrorInHandler(w[h], got.err)]
              /\ pc' = [pc EXCEPT ![h] = "done"]
              /\ UNCHANGED resp
         ELSE /\ resp' = [resp EXCEPT ![h] = got.resp]
              /\ pc' = [pc EXCEPT ![h] = "respond"]
              /\ UNCHANGED <<err, w>>
    /\ UNCHANGED <<req, sel, appendRes, served>>
    /\ UNCHANGED <<sessionVars, recorderVars, replayerVars, stopVars>>

\* getNextRecordedCassetteResponse, entering replayer.Write: the Replayer's
\* lock is taken and the interaction is selected
ResolveBegin(h) ==
    /\ pc[h] = "resolve"
    /\ ReplayerLockFree
    /\ repLock' = h
    /\ sel' = [sel EXCEPT ![h] = Resolve(req[h])]
    /\ pc' = [pc EXCEPT ![h] = "resolving"]
    /\ UNCHANGED <<req, resp, err, w, appendRes, served, replayer, cassette, comparator,
                   consumed, resolveLog>>
    /\ UNCHANGED <<sessionVars, recorderVars, stopVars>>

\* replayer.Write returns: the selection is marked consumed and the lock
\* released; the handler handles an error and returns, or goes on with the
\* recorded response
ResolveEnd(h) ==
    /\ pc[h] = "resolving"
    /\ repLock' = 0
    /\ consumed' = MarkConsumed(sel[h])
    /\ resolveLog' = Append(resolveLog,
                            [request |-> req[h], idx |-> sel[h].idx, err |-> sel[h].err,
                             response |-> IF sel[h].idx = 0 THEN NoResponse
                                          ELSE cassette[sel[h].idx].response])
    /\ IF sel[h].err # ""
       THEN /\ err' = [err EXCEPT ![h] = sel[h].err]
            /\ w' = [w EXCEPT ![h] = handleErrorInHandler(w[h], sel[h].err)]
            /\ pc' = [pc EXCEPT ![h] = "done"]
            /\ UNCHANGED resp
       ELSE /\ resp' = [resp EXCEPT ![h] = cassette[sel[h].idx].response]
            /\ pc' = [pc EXCEPT ![h] = "respond"]
            /\ UNCHANGED <<err, w>>
    /\ UNCHANGED <<req, sel, appendRes, served, replayer, cassette, comparator>>
    /\ UNCHANGED <<sessionVars, recorderVars, stopVars>>

\* the write-back without resp.Body = ioutil.NopCloser(...): the body stream
\* stays at its end
HandlerRespondNoRestore(h) ==
    /\ pc[h] = "respond"
    /\ \E readOK \in (IF recordMode THEN BOOLEAN ELSE {TRUE}) :
         LET w1 == WriteHeader(w[h], resp[h].StatusCode)
             w2 == HeaderSet(w1, "Content-Type", resp[h].ContentType)
             w3 == HeaderSet(w2, "Content-Length", resp[h].ContentLength)
             bodyBytes == resp[h].Body
             drained == [resp[h] EXCEPT !.Body = ""]
             restored == [drained EXCEPT !.Body = bodyBytes]
         IN  IF ~readOK
             THEN /\ err' = [err EXCEPT ![h] = "ReadError"]
                  /\ w' = [w EXCEPT ![h] = handleErrorInHandler(w3, "ReadError")]
                  /\ resp' = [resp EXCEPT ![h] = drained]
                  /\ pc' = [pc EXCEPT ![h] = "done"]
             ELSE /\ w' = [w EXCEPT ![h] = IoCopy(w3, bodyBytes)]
                  /\ resp' = [resp EXCEPT ![h] = drained]
                  /\ pc' = [pc EXCEPT ![h] = IF recordMode THEN "append" ELSE "done"]
                  /\ UNCHANGED err
    /\ UNCHANGED <<req, sel, appendRes, served>>
    /\ UNCHANGED <<sessionVars, recorderVars, replayerVars, stopVars>>

\* handler, writing the response back: WriteHeader, the two Header().Set calls,
\* ReadAll of the body (which can fail on a body still on the wire, and leaves
\* the stream at its end), io.Copy to the caller, and resp.Body set anew from
\* the bytes read
HandlerRespond(h) ==
    /\ pc[h] = "respond"
    /\ \E readOK \in (IF recordMode THEN BOOLEAN ELSE {TRUE}) :
         LET w1 == WriteHeader(w[h], resp[h].StatusCode)
             w2 == HeaderSet(w1, "Content-Type", resp[h].ContentType)
             w3 == HeaderSet(w2, "Content-Length", resp[h].ContentLength)
             bodyBytes == resp[h].Body
             drained == [resp[h] EXCEPT !.Body = ""]
             restored == [drained EXCEPT !.Body = bodyBytes]
         IN  IF ~readOK
             THEN /\ err' = [err EXCEPT ![h] = "ReadError"]
                  /\ w' = [w EXCEPT ![h] = handleErrorInHandler(w3, "ReadError")]
                  /\ resp' = [resp EXCEPT ![h] = drained]
                  /\ pc' = [pc EXCEPT ![h] = "done"]
             ELSE /\ w' = [w EXCEPT ![h] = IoCopy(w3, bodyBytes)]
                  /\ resp' = [resp EXCEPT ![h] = restored]
                  /\ pc' = [pc EXCEPT ![h] = IF recordMode THEN "append" ELSE "done"]
                  /\ UNCHANGED err
    /\ UNCHANGED <<req, sel, appendRes, served>>
    /\ UNCHANGED <<sessionVars, recorderVars, replayerVars, stopVars>>

\* NewSerializableHttpRequest(r), NewSerializableHttpResponse(resp): what the
\* handler hands to recorder.Write
NewInteraction(h) == [request |-> req[h], response |-> resp[h]]

\* handler, entering recorder.Write: the Recorder's lock is taken and the
\* interaction written, or the write refused or failed
AppendBegin(h) ==
    /\ pc[h] = "append"
    /\ RecorderLockFree
    /\ recLock' = h
    /\ pc' = [pc EXCEPT ![h] = "appending"]
    /\ \E out \in RecorderWrite(NewInteraction(h)) :
         /\ appendRes' = [appendRes EXCEPT ![h] = out.res]
         /\ file' = out.file
    /\ UNCHANGED <<req, resp, err, w, sel, served, fileExists, recorder, appendLog, proxied,
                   fileAtStop>>
    /\ UNCHANGED <<sessionVars, replayerVars, stopVars>>

\* recorder.Write returns and the lock is released; the handler handles an
\* error, and returns
AppendEnd(h) ==
    /\ pc[h] = "appending"
    /\ recLock' = 0
    /\ pc' = [pc EXCEPT ![h] = "done"]
    /\ IF appendRes[h] = "ok"
       THEN /\ appendLog' = Append(appendLog, NewInteraction(h))
            /\ proxied' = Append(proxied, [status |-> Delivered(w[h]).status,
                                           body |-> Delivered(w[h]).body])
            /\ UNCHANGED <<err, w>>
       ELSE /\ err' = [err EXCEPT ![h] = appendRes[h]]
            /\ w' = [w EXCEPT ![h] = handleErrorInHandler(w[h], appendRes[h])]
            /\ UNCHANGED <<appendLog, proxied>>
    /\ UNCHANGED <<req, resp, sel, appendRes, served, fileExists, file, recorder,
                   fileAtStop>>
    /\ UNCHANGED <<sessionVars, replayerVars, stopVars>>

\* a /vcr/stop handler that does not close the Recorder
StopHandlerNoClose ==
    /\ phase = "serving" /\ listening
    /\ served < MaxRequests
    /\ served' = served + 1
    /\ stops' = stops + 1
    /\ fileAtStop' = (IF stops = 0 THEN file ELSE fileAtStop)
    /\ UNCHANGED <<fileExists, file, recorder, recLock, appendLog, proxied, nilClose>>
    /\ UNCHANGED <<sessionVars, handlerVars, replayerVars>>

\* the /vcr/stop handler of InitializeServer: httpVcr.recorder.Close(); the
\* listener is left alone. Close waits for an append in progress; on a nil
\* Recorder (a REPLAY session) there is nothing to close
StopHandler ==
    /\ phase = "serving" /\ listening
    /\ served < MaxRequests
    /\ served' = served + 1
    /\ stops' = stops + 1
    /\ IF recorder = "nil"
       THEN /\ nilClose' = nilClose + 1
            /\ UNCHANGED <<recorder, fileAtStop>>
       ELSE /\ RecorderLockFree
            /\ recorder' = RecorderClose
            /\ fileAtStop' = (IF recorder = "open" THEN file ELSE fileAtStop)
            /\ UNCHANGED nilClose
    /\ UNCHANGED <<fileExists, file, recLock, appendLog, proxied>>
    /\ UNCHANGED <<sessionVars, handlerVars, replayerVars>>

VcrStop == StopHandler

(* --------------------------- specification ----------------------------- *)

Next ==
    \/ NewHttpVcr
    \/ InitializeServer
    \/ \E h \in Handlers : Receive(h)
    \/ \E h \in Handlers : HandlerFetch(h)
    \/ \E h \in Handlers : ResolveBegin(h)
    \/ \E h \in Handlers : ResolveEnd(h)
    \/ \E h \in Handlers : HandlerRespond(h)
    \/ \E h \in Handlers : AppendBegin(h)
    \/ \E h \in Handlers : AppendEnd(h)
    \/ VcrStop

Spec == Init /\ [][Next]_vars

(* ----------------- a Replayer with any comparator, by itself ------------ *)

\* a live Replayer that NewReplayer built over any cassette with any
\* comparator; nothing else of the session matters
InitResolve ==
    /\ phase = "serving"
    /\ recordMode = FALSE
    /\ fileExists = TRUE
    /\ removable = TRUE
    /\ hadFile = TRUE
    /\ startErr = ""
    /\ file \in Cassettes
    /\ recorder = "nil"
    /\ recLock = 0
    /\ replayer = "live"
    /\ cassette = file
    /\ comparator \in Comparators
    /\ consumed = {}
    /\ repLock = 0
    /\ listening = TRUE
    /\ pc = [h \in Handlers |-> "idle"]
    /\ req = [h \in Handlers |-> NoRequest]
    /\ resp = [h \in Handlers |-> NoResponse]
    /\ err = [h \in Handlers |-> ""]
    /\ w = [h \in Handlers |-> NewResponseWriter]
    /\ sel = [h \in Handlers |-> NoSelection]
    /\ appendRes = [h \in Handlers |-> "none"]
    /\ served = 0
    /\ resolveLog = <<>>
    /\ appendLog = <<>>
    /\ proxied = <<>>
    /\ fileAtStop = <<>>
    /\ stops = 0
    /\ nilClose = 0

\* one whole Resolve(request) under the Replayer's lock: select, mark consumed
ResolveCall(request) ==
    /\ replayer = "live"
    /\ ReplayerLockFree
    /\ Len(resolveLog) < MaxRequests
    /\ LET s == Resolve(request)
       IN  /\ consumed' = MarkConsumed(s)
           /\ resolveLog' = Append(resolveLog,
                                   [request |-> request, idx |-> s.idx, err |-> s.err,
                                    response |-> IF s.idx = 0 THEN NoResponse
                                                 ELSE cassette[s.idx].response])
    /\ UNCHANGED <<replayer, cassette, comparator, repLock>>
    /\ UNCHANGED <<sessionVars, handlerVars, recorderVars, stopVars, served>>

NextResolve == \E request \in Requests : ResolveCall(request)

SpecResolve == InitResolve /\ [][NextResolve]_vars

(* ------------------- a RECORD session, then a REPLAY session ------------ *)

\* a RECORD session started at a path without a file
InitE2E == Init /\ recordMode /\ ~fileExists

\* the RECORD process, its Recorder closed and no request in flight, is ended
\* and main is run again in REPLAY mode at the same path: everything of the
\* process is new, the cassette file stays
Restart ==
    /\ recordMode /\ phase = "serving"
    /\ recorder = "closed"
    /\ \A h \in Handlers : Free(h)
    /\ phase' = "new"
    /\ recordMode' = FALSE
    /\ hadFile' = fileExists
    /\ startErr' = ""
    /\ listening' = FALSE
    /\ recorder' = "nil"
    /\ recLock' = 0
    /\ fileAtStop' = <<>>
    /\ pc' = [h \in Handlers |-> "idle"]
    /\ req' = [h \in Handlers |-> NoRequest]
    /\ resp' = [h \in Handlers |-> NoResponse]
    /\ err' = [h \in Handlers |-> ""]
    /\ w' = [h \in Handlers |-> NewResponseWriter]
    /\ sel' = [h \in Handlers |-> NoSelection]
    /\ appendRes' = [h \in Handlers |-> "none"]
    /\ served' = 0
    /\ stops' = 0
    /\ nilClose' = 0
    /\ UNCHANGED <<fileExists, removable, file, appendLog, proxied>>
    /\ UNCHANGED replayerVars

NextE2E == Next \/ Restart

SpecE2E == InitE2E /\ [][NextE2E]_vars

(* ------------------------------- claims -------------------------------- *)

Success(status) == status \in 200..299

\* C1: in a REPLAY session with the sequential comparator over a cassette of n
\* interactions, the k-th Resolve call returns the response of the k-th
\* interaction whatever the request is, for k <= n, and every later call
\* fails with Exhausted.
C1_SequentialReplay ==
    (~recordMode /\ phase = "serving") =>
        \A k \in 1..Len(resolveLog) :
            IF k <= Len(cassette)
            THEN /\ resolveLog[k].err = ""
                 /\ resolveLog[k].idx = k
                 /\ resolveLog[k].response = cassette[k].response
            ELSE resolveLog[k].err = "Exhausted"

\* three calls over a cassette of two different interactions, the first with a
\* request other than the recorded one, the third exhausted
C1_Witness ==
    /\ ~recordMode /\ Len(cassette) = 2 /\ Len(resolveLog) = 3
    /\ cassette[1].response # cassette[2].response
    /\ resolveLog[1].request # cassette[1].request
    /\ resolveLog[2].response = cassette[2].response
    /\ resolveLog[3].err = "Exhausted"

\* C2: in a RECORD session, for every request whose fetch succeeded, the
\* interaction is appended (or the append has failed) before anything of the
\* response is written back to the caller, and the handler returns only after
\* the append has completed or failed.
C2_AppendBeforeResponse ==
    \A h \in Handlers :
        (recordMode /\ pc[h] \in {"respond", "append", "appending", "done"}
           /\ resp[h] # NoResponse /\ err[h] # "ReadError") =>
            /\ w[h].wroteHeader => (appendRes[h] # "none" /\ pc[h] # "appending")
            /\ pc[h] = "done" => appendRes[h] # "none"

\* C3: for every request answered successfully, in either mode, the status
\* code, the Content-Type and the body the caller receives are those of the
\* fetched or recorded response.
C3_ByteFaithfulResponse ==
    \A h \in Handlers :
        (pc[h] = "done" /\ err[h] = "") =>
            /\ Delivered(w[h]).status = resp[h].StatusCode
            /\ Delivered(w[h]).contentType = resp[h].ContentType
            /\ Delivered(w[h]).body = resp[h].Body

\* C4: in a REPLAY session a request whose Resolve failed with NoMatch or
\* Exhausted is answered with a 500-class status and a body that is not empty
\* (the failure reason), and the proxy keeps serving.
C4_ReplayFailureReported ==
    \A h \in Handlers :
        (~recordMode /\ pc[h] = "done" /\ err[h] \in {"NoMatch", "Exhausted"}) =>
            /\ Delivered(w[h]).status \in 500..599
            /\ Delivered(w[h]).body # ""
            /\ listening /\ phase = "serving"

C6_AppendFailureSurfaced ==
    \A h \in Handlers :
        (recordMode /\ pc[h] = "done" /\ appendRes[h] \in {"RecorderClosed", "IOError"}) =>
            ~Success(Delivered(w[h]).status)

\* C7: in a RECORD session, once a /vcr/stop request has been handled the
\* listener still serves, the Recorder is closed, every Append made from then
\* on fails with RecorderClosed, and the cassette stays as it was at the stop.
C7_StopClosesRecorderOnly ==
    (recordMode /\ stops > 0) =>
        /\ listening /\ phase = "serving"
        /\ recorder = "closed"
        /\ file = fileAtStop
        /\ \A h \in Handlers : pc[h] = "appending" => appendRes[h] = "RecorderClosed"

\* after a stop that found one interaction recorded, a later request has been
\* accepted, fetched and refused by the Recorder
C7_Witness ==
    \E h \in Handlers :
        /\ recordMode /\ stops = 1 /\ Len(file) = 1 /\ served = MaxRequests
        /\ pc[h] = "done" /\ appendRes[h] = "RecorderClosed"

\* C8: in a REPLAY session with parallel handler invocations, no interaction
\* is returned by two Resolve calls: at most one invocation is inside Resolve,
\* and what it has selected is not yet consumed.
C8_OneShotConsumption ==
    ~recordMode =>
        /\ \A j, k \in 1..Len(resolveLog) :
               (j # k /\ resolveLog[j].idx # 0) => resolveLog[j].idx # resolveLog[k].idx
        /\ Cardinality({h \in Handlers : pc[h] = "resolving"}) <= 1
        /\ \A h \in Handlers :
               (pc[h] = "resolving" /\ sel[h].idx # 0) => sel[h].idx \notin consumed

\* two invocations in flight at once, each holding a different interaction
C8_Witness ==
    \E h, g \in Handlers :
        /\ ~recordMode /\ h # g
        /\ pc[h] = "respond" /\ pc[g] = "respond"
        /\ sel[h].idx # 0 /\ sel[g].idx # 0 /\ sel[h].idx # sel[g].idx

\* C9: in a RECORD session with parallel handler invocations, at most one
\* invocation is inside Append, and the cassette is the sequence of the
\* successful Appends in their completion order, each exactly once, followed
\* at most by the one being written.
C9_AppendsSerialized ==
    (recordMode /\ phase = "serving") =>
        LET writing == {h \in Handlers : pc[h] = "appending" /\ appendRes[h] = "ok"}
        IN  /\ Cardinality({h \in Handlers : pc[h] = "appending"}) <= 1
            /\ IF writing = {}
               THEN file = appendLog
               ELSE \E h \in writing :
                      file = Append(appendLog, NewInteraction(h))

\* one invocation is writing a second interaction while another waits with a
\* different one
C9_Witness ==
    \E h, g \in Handlers :
        /\ recordMode /\ h # g
        /\ pc[h] = "appending" /\ appendRes[h] = "ok" /\ pc[g] = "append"
        /\ resp[h] # resp[g]
        /\ Len(appendLog) = 1

\* the components of a constructed session are those of its mode, and every
\* handler invocation is at a step of its mode
ModeInvariant ==
    phase \in {"constructed", "serving"} =>
        /\ (recorder # "nil") <=> recordMode
        /\ (replayer # "nil") <=> ~recordMode
        /\ \A h \in Handlers :
               /\ pc[h] \in {"fetch", "append", "appending"} => recordMode
               /\ pc[h] \in {"resolve", "resolving"} => ~recordMode
        /\ recLock # 0 => recordMode
        /\ repLock # 0 => ~recordMode

\* C10: after a successful NewHttpVcr exactly one of Recorder and Replayer
\* exists, the Recorder iff recordMode; the mode never changes; and a request
\* is handled only with the component of the session's mode.
C10_OneModePerSession ==
    /\ []ModeInvariant
    /\ [][/\ recordMode' = recordMode
          /\ (recorder' # recorder \/ file' # file \/ appendLog' # appendLog) => recordMode
          /\ (consumed' # consumed \/ resolveLog' # resolveLog) => ~recordMode]_vars

\* a RECORD session with an append in progress after a /vcr/stop request
C10_Witness ==
    \E h \in Handlers :
        recordMode /\ phase = "serving" /\ stops > 0 /\ pc[h] = "appending"

\* C11: in a REPLAY session no handler invocation is ever at the fetch to the
\* origin or at an append, the cassette file is never changed, and once the
\* session serves the Replayer's interactions are and stay those of the file.
C11_ReplayIsOffline ==
    /\ [](~recordMode =>
            /\ \A h \in Handlers : pc[h] \notin {"fetch", "append", "appending"}
            /\ phase = "serving" => cassette = file)
    /\ [][~recordMode =>
            /\ file' = file /\ fileExists' = fileExists
            /\ phase \in {"constructed", "serving"} => cassette' = cassette]_vars

\* a REPLAY session that has answered from a cassette of two interactions and
\* has failed a third request
C11_Witness ==
    \E h \in Handlers :
        /\ ~recordMode /\ served = MaxRequests /\ stops = 0
        /\ Len(cassette) = 2 /\ consumed = {1, 2}
        /\ pc[h] = "done" /\ err[h] = "Exhausted"

\* C12: a RECORD session whose path held a file that cannot be removed fails
\* to start with an error; otherwise the session starts from an empty cassette
\* whatever the file held, and the cassette holds only interactions appended,
\* or being appended, in this session.
C12_RecordOverwrites ==
    recordMode =>
        LET writing == {h \in Handlers : pc[h] = "appending" /\ appendRes[h] = "ok"}
            ofSession == {appendLog[i] : i \in 1..Len(appendLog)}
                             \cup {NewInteraction(h) : h \in writing}
        IN  /\ (hadFile /\ ~removable) =>
                   (phase \in {"new", "failed"} /\ recorder = "nil")
            /\ phase = "failed" => (startErr # "" /\ ~listening /\ served = 0)
            /\ phase = "constructed" => (file = <<>> /\ fileExists)
            /\ phase \in {"constructed", "serving"} =>
                   /\ startErr = ""
                   /\ Len(file) <= Len(appendLog) + Cardinality(writing)
                   /\ \A i \in 1..Len(file) : file[i] \in ofSession

\* a RECORD session started over an existing file, stopped after one
\* interaction was recorded
C12_Witness ==
    /\ recordMode /\ hadFile /\ phase = "serving"
    /\ recorder = "closed" /\ Len(file) = 1 /\ file = appendLog

\* C13: a REPLAY session whose path holds no file fails to start with
\* FileNotFound: no Replayer is created and no request is ever served.
C13_ReplayMissingFile ==
    (~recordMode /\ ~fileExists) =>
        /\ phase \in {"new", "failed"}
        /\ phase = "failed" => startErr = "FileNotFound"
        /\ replayer = "nil"
        /\ ~listening /\ served = 0

\* NewHttpVcr has returned FileNotFound for a REPLAY session without a file
C13_Witness ==
    ~recordMode /\ ~fileExists /\ phase = "failed" /\ startErr = "FileNotFound"

\* C15: in the REPLAY session that follows a RECORD session in which n
\* requests were proxied and recorded, in that order, and the Recorder was
\* closed: the cassette holds n interactions, the k-th Resolve (k <= n)
\* selects the k-th of them whatever the request, the caller of that request
\* receives the status and the body the k-th recorded request's caller
\* received, and every request after the n-th fails with Exhausted.
C15_EndToEnd ==
    ~recordMode =>
        /\ phase = "serving" => Len(cassette) = Len(proxied)
        /\ \A k \in 1..Len(resolveLog) :
               IF k <= Len(proxied)
               THEN resolveLog[k].idx = k /\ resolveLog[k].err = ""
               ELSE resolveLog[k].err = "Exhausted"
        /\ \A h \in Handlers :
               pc[h] = "done" =>
                   IF err[h] = ""
                   THEN /\ sel[h].idx \in 1..Len(proxied)
                        /\ Delivered(w[h]).status = proxied[sel[h].idx].status
                        /\ Delivered(w[h]).body = proxied[sel[h].idx].body
                   ELSE err[h] = "Exhausted" /\ consumed = 1..Len(proxied)

\* two different responses were recorded; the REPLAY session has answered a
\* first request other than the recorded one, has delivered the second
\* response, and has failed a third request
C15_Witness ==
    \E h \in Handlers :
        /\ ~recordMode /\ Len(proxied) = 2 /\ proxied[1] # proxied[2]
        /\ Len(resolveLog) = 3
        /\ resolveLog[1].request # appendLog[1].request
        /\ resolveLog[3].err = "Exhausted"
        /\ pc[h] = "done" /\ err[h] = "" /\ sel[h].idx = 2
        /\ Delivered(w[h]).body = proxied[2].body

\* C17: for any comparator, every Resolve call scans the interactions that
\* were unconsumed when it was called, in recorded order, up to and including
\* the first one for which the comparator returns shortCircuit; it selects the
\* first accepted one among those scanned, fails with NoMatch when there were
\* unconsumed interactions but none of the scanned ones was accepted, and
\* fails with Exhausted exactly when no interaction was unconsumed.
C17_ResolveScan ==
    \A k \in 1..Len(resolveLog) :
        LET r == resolveLog[k]
            before == {resolveLog[j].idx : j \in 1..(k - 1)} \ {0}
            unconsumed == {i \in 1..Len(cassette) : i \notin before}
            cmp(i) == comparator[<<cassette[i].request, r.request>>]
            scanned == {i \in unconsumed :
                          \A j \in unconsumed : j < i => ~cmp(j)[2]}
            accepted == {i \in scanned : cmp(i)[1]}
        IN  /\ (r.err = "Exhausted") <=> (unconsumed = {})
            /\ unconsumed # {} =>
                 IF accepted = {}
                 THEN r.idx = 0 /\ r.err = "NoMatch"
                 ELSE /\ r.err = ""
                      /\ r.idx \in accepted
                      /\ \A i \in accepted : r.idx <= i
                      /\ r.response = cassette[r.idx].response

\* one call failed with NoMatch at a short circuit although the interaction
\* behind it would have been accepted; the next skipped the unaccepted first
\* interaction and selected the second; the third found only the first one
\* left, which the comparator does not accept
C17_Witness ==
    /\ Len(cassette) = 2 /\ Len(resolveLog) = 3
    /\ resolveLog[1].err = "NoMatch"
    /\ comparator[<<cassette[1].request, resolveLog[1].request>>] = <<FALSE, TRUE>>
    /\ comparator[<<cassette[2].request, resolveLog[1].request>>][1]
    /\ resolveLog[2].idx = 2
    /\ comparator[<<cassette[1].request, resolveLog[2].request>>] = <<FALSE, FALSE>>
    /\ resolveLog[3].err = "NoMatch"
    /\ consumed = {2}

\* C18: once the Recorder of a RECORD session exists, every step of the
\* session (an Append that succeeds or fails, Close, a /vcr/stop request)
\* leaves the cassette file with its earlier interaction sequence as a
\* prefix: nothing is rewritten, reordered or deleted.
C18_CassetteOnlyGrows ==
    [][(recordMode /\ recorder # "nil") =>
          /\ Len(file) <= Len(file')
          /\ SubSeq(file', 1, Len(file)) = file]_vars

\* two interactions were appended and /vcr/stop has closed the Recorder
C18_Witness ==
    /\ recordMode /\ recorder = "closed" /\ stops > 0
    /\ Len(file) = 2 /\ file = appendLog

\* C19: every /vcr/stop request calls Close only on a Recorder that exists:
\* no /vcr/stop request of any session has called Close on the absent (nil)
\* Recorder, and in a REPLAY session the Replayer's consumption marks are
\* the ones its Resolve calls made.
C19_StopOnlyClosesExistingRecorder ==
    /\ nilClose = 0
    /\ ~recordMode => consumed = {resolveLog[k].idx : k \in 1..Len(resolveLog)} \ {0}

====
